---- MODULE Spec2Model ----
(***************************************************************************)
(* Model of the openwebui_model resource of terraform-provider-openwebui:  *)
(* the access_control plan modifier (AccessControlDefaultModifier) and the *)
(* Create / Read / Update / Delete handlers of ModelResource               *)
(* (internal/provider/models_resource.go).                                 *)
(*                                                                         *)
(* The models client (r.client) is the boundary to the remote service: its *)
(* outcome for one call is an input of the handler that makes the call.    *)
(***************************************************************************)
EXTENDS Naturals, Sequences, FiniteSets, TLC

VARIABLES
    state,      \* the resource's Terraform state (resp.State / req.State)
    planReq,    \* the plan handed to the plan modifier (req.Plan)
    planResp,   \* the plan modifier's response (resp.Diagnostics, resp.PlanValue)
    last,       \* the handler that ran last: its store calls, the store's outcome, its diagnostics
    validated   \* the configuration validated last, with the diagnostics validation raised

vars == <<state, planReq, planResp, last, validated>>

(***************************************************************************)
(* Bounds of the model.                                                    *)
(***************************************************************************)
MaxListLen == 1     \* longest group_ids / user_ids list of an explicit access_control

(***************************************************************************)
(* Framework values: types.String, types.Bool, types.Object.  Each is      *)
(* null, unknown or known.                                                 *)
(***************************************************************************)
StringNull == [kind |-> "null", value |-> ""]
StringValue(s) == [kind |-> "known", value |-> s]

BoolNull == [kind |-> "null", value |-> FALSE]
BoolUnknown == [kind |-> "unknown", value |-> FALSE]
BoolValue(b) == [kind |-> "known", value |-> b]

\* types.ListValueFrom(ctx, types.StringType, []string{})
EmptyList == << >>

Permissions(g, u) == [group_ids |-> g, user_ids |-> u]

AccessControl(r, w) == [read |-> r, write |-> w]

NoObject == AccessControl(Permissions(EmptyList, EmptyList), Permissions(EmptyList, EmptyList))

ObjectNull == [kind |-> "null", value |-> NoObject]
ObjectUnknown == [kind |-> "unknown", value |-> NoObject]
ObjectValue(v) == [kind |-> "known", value |-> v]

IsNull(v) == v.kind = "null"
IsUnknown(v) == v.kind = "unknown"

\* ValueString / ValueBool: the zero value unless the value is known.
ValueString(v) == IF v.kind = "known" THEN v.value ELSE ""
ValueBool(v) == IF v.kind = "known" THEN v.value ELSE FALSE

(***************************************************************************)
(* Diagnostics.  A text is the sequence of its words, so that "the message *)
(* names X" is a question about the message.                               *)
(***************************************************************************)
Diag(p, s, d) == [severity |-> "error", path |-> p, summary |-> s, detail |-> d]

\* an empty resp.Diagnostics
NoDiags == << >>

HasError(diags) == \E i \in 1..Len(diags) : diags[i].severity = "error"

\* resp.Diagnostics.AddError(summary, detail)
AddError(diags, s, d) == Append(diags, Diag("", s, d))

\* resp.Diagnostics.AddAttributeError(path.Root(p), summary, detail)
AddAttributeError(diags, p, s, d) == Append(diags, Diag(p, s, d))

(***************************************************************************)
(* AccessControlDefaultModifier.PlanModifyObject                           *)
(* req  = [Plan |-> [is_private, access_control, ...]]                      *)
(* resp = [Diagnostics, PlanValue], as the caller initialised it            *)
(***************************************************************************)
IsPrivateDetail == <<"is_private", "must", "be", "true", "when", "access_control", "is", "specified">>
AccessControlDetail == <<"access_control", "cannot", "be", "specified", "when", "is_private", "is", "false">>
InvalidValue == <<"Invalid", "Value">>

\* lines 431-451: the default access_control, read and write with empty lists
DefaultAccessControl ==
    LET emptyList == EmptyList
        readPermissions == Permissions(emptyList, emptyList)
        writePermissions == Permissions(emptyList, emptyList)
    IN  ObjectValue(AccessControl(readPermissions, writePermissions))

\* Faulty variants of PlanModifyObject, each one slip away from the source; the
\* properties of the plan modifier below distinguish the source from them.
\* Without lines 453-455: is_private false leaves the planned value alone.
PlanModifyObject_NoClear(req, resp) ==
    LET isPrivate == req.Plan.is_private
        accessControl == req.Plan.access_control
    IN  IF ~ValueBool(isPrivate) /\ ~(IsNull(accessControl) \/ IsUnknown(accessControl))
        THEN [resp EXCEPT !.Diagnostics =
                AddAttributeError(
                    AddAttributeError(@, "is_private", InvalidValue, IsPrivateDetail),
                    "access_control", InvalidValue, AccessControlDetail)]
        ELSE IF ValueBool(isPrivate) /\ (IsUnknown(accessControl) \/ IsNull(accessControl))
        THEN [resp EXCEPT !.PlanValue = DefaultAccessControl]
        ELSE resp

\* Line 430 testing IsUnknown only: a null access_control gets no default.
PlanModifyObject_UnknownOnly(req, resp) ==
    LET isPrivate == req.Plan.is_private
        accessControl == req.Plan.access_control
    IN  IF ~ValueBool(isPrivate) /\ ~(IsNull(accessControl) \/ IsUnknown(accessControl))
        THEN [resp EXCEPT !.Diagnostics =
                AddAttributeError(
                    AddAttributeError(@, "is_private", InvalidValue, IsPrivateDetail),
                    "access_control", InvalidValue, AccessControlDetail)]
        ELSE IF ValueBool(isPrivate) /\ IsUnknown(accessControl)
        THEN [resp EXCEPT !.PlanValue = DefaultAccessControl]
        ELSE IF ~ValueBool(isPrivate)
        THEN [resp EXCEPT !.PlanValue = ObjectNull]
        ELSE resp

\* Without line 420: the conflict is reported on access_control only.
PlanModifyObject_OneError(req, resp) ==
    LET isPrivate == req.Plan.is_private
        accessControl == req.Plan.access_control
    IN  IF ~ValueBool(isPrivate) /\ ~(IsNull(accessControl) \/ IsUnknown(accessControl))
        THEN [resp EXCEPT !.Diagnostics =
                AddAttributeError(@, "access_control", InvalidValue, AccessControlDetail)]
        ELSE IF ValueBool(isPrivate) /\ (IsUnknown(accessControl) \/ IsNull(accessControl))
        THEN [resp EXCEPT !.PlanValue = DefaultAccessControl]
        ELSE IF ~ValueBool(isPrivate)
        THEN [resp EXCEPT !.PlanValue = ObjectNull]
        ELSE resp

\* Line 430 without the test of access_control: is_private true always gets
\* the default.
PlanModifyObject_AlwaysDefault(req, resp) ==
    LET isPrivate == req.Plan.is_private
        accessControl == req.Plan.access_control
    IN  IF ~ValueBool(isPrivate) /\ ~(IsNull(accessControl) \/ IsUnknown(accessControl))
        THEN [resp EXCEPT !.Diagnostics =
                AddAttributeError(
                    AddAttributeError(@, "is_private", InvalidValue, IsPrivateDetail),
                    "access_control", InvalidValue, AccessControlDetail)]
        ELSE IF ValueBool(isPrivate)
        THEN [resp EXCEPT !.PlanValue = DefaultAccessControl]
        ELSE [resp EXCEPT !.PlanValue = ObjectNull]

\* Line 419 without the IsNull test: a null access_control counts as specified.
PlanModifyObject_ConflictOnNull(req, resp) ==
    LET isPrivate == req.Plan.is_private
        accessControl == req.Plan.access_control
    IN  IF ~ValueBool(isPrivate) /\ ~IsUnknown(accessControl)
        THEN [resp EXCEPT !.Diagnostics =
                AddAttributeError(
                    AddAttributeError(@, "is_private", InvalidValue, IsPrivateDetail),
                    "access_control", InvalidValue, AccessControlDetail)]
        ELSE IF ValueBool(isPrivate) /\ (IsUnknown(accessControl) \/ IsNull(accessControl))
        THEN [resp EXCEPT !.PlanValue = DefaultAccessControl]
        ELSE IF ~ValueBool(isPrivate)
        THEN [resp EXCEPT !.PlanValue = ObjectNull]
        ELSE resp

\* Lines 419 and 453 testing for a known false instead of !ValueBool(): a null
\* or unknown is_private is treated like true.
PlanModifyObject_FalseOnly(req, resp) ==
    LET isPrivate == req.Plan.is_private
        accessControl == req.Plan.access_control
        isFalse == isPrivate.kind = "known" /\ ~isPrivate.value
    IN  IF isFalse /\ ~(IsNull(accessControl) \/ IsUnknown(accessControl))
        THEN [resp EXCEPT !.Diagnostics =
                AddAttributeError(
                    AddAttributeError(@, "is_private", InvalidValue, IsPrivateDetail),
                    "access_control", InvalidValue, AccessControlDetail)]
        ELSE IF ~isFalse /\ (IsUnknown(accessControl) \/ IsNull(accessControl))
        THEN [resp EXCEPT !.PlanValue = DefaultAccessControl]
        ELSE IF isFalse
        THEN [resp EXCEPT !.PlanValue = ObjectNull]
        ELSE resp

PlanModifyObject(req, resp) ==
    LET isPrivate == req.Plan.is_private
        accessControl == req.Plan.access_control
    IN  IF ~ValueBool(isPrivate) /\ ~(IsNull(accessControl) \/ IsUnknown(accessControl))
        THEN [resp EXCEPT !.Diagnostics =
                AddAttributeError(
                    AddAttributeError(@, "is_private", InvalidValue, IsPrivateDetail),
                    "access_control", InvalidValue, AccessControlDetail)]
        ELSE LET r1 == IF ValueBool(isPrivate) /\ (IsUnknown(accessControl) \/ IsNull(accessControl))
                       THEN [resp EXCEPT !.PlanValue = DefaultAccessControl]
                       ELSE resp
             IN  IF ~ValueBool(isPrivate)
                 THEN [r1 EXCEPT !.PlanValue = ObjectNull]
                 ELSE r1

(***************************************************************************)
(* Validation of the params of a resource configuration.  The schema gives *)
(* each attribute it declares its Validators; the values of                *)
(* stringvalidator.OneOf stand for the validator (none: no validator).     *)
(* The configuration gives each attribute a types.String: null when the    *)
(* configuration does not mention it.                                      *)
(***************************************************************************)
NoValidator == {}

\* Faulty variant of ResourceParams: reasoning_effort without its validator.
ResourceParams_NoValidator ==
    [reasoning_effort |-> NoValidator]

\* ModelResource.Schema, params: reasoning_effort carries
\* OneOf("low", "medium", "high").  The schema declares no function_calling
\* attribute, in Attributes, in the attribute types or in the default.
ResourceParams ==
    [reasoning_effort |-> {"low", "medium", "high"}]

InvalidMatch == <<"Invalid", "Attribute", "Value", "Match">>

\* stringvalidator.OneOf: a null or unknown value is not validated
OneOf(values, path, value, diags) ==
    IF IsNull(value) \/ IsUnknown(value) THEN diags
    ELSE IF value.value \in values THEN diags
    ELSE AddAttributeError(diags, path, InvalidMatch, <<"value", "must", "be", "one", "of">>)

\* the Validators the schema declares, run on the configured values; the
\* schema holds no validator for a name it does not declare
ValidateParams(schema, params) ==
    LET validate(path, diags) ==
            IF path \in DOMAIN schema /\ schema[path] # NoValidator
            THEN OneOf(schema[path], path, params[path], diags)
            ELSE diags
    IN  validate("function_calling", validate("reasoning_effort", NoDiags))

(***************************************************************************)
(* models.Model, reduced to the attributes the handlers and the plan       *)
(* modifier read: id, is_private, access_control.                          *)
(***************************************************************************)
Model(id, priv, ac) == [ID |-> id, is_private |-> priv, access_control |-> ac]

\* what State.Get / Plan.Get decode from a null object: every attribute null
NullModel == Model(StringNull, BoolNull, ObjectNull)

\* tfsdk.State: the null state (no resource) or the stored model
NoResource == [exists |-> FALSE, model |-> NullModel]
Stored(m) == [exists |-> TRUE, model |-> m]

(***************************************************************************)
(* The models client.  One call gives an error or a model; the outcome is  *)
(* an input of the handler.  A call is recorded with its arguments.        *)
(***************************************************************************)
NoErr == << >>
Outcome(e, m) == [err |-> e, model |-> m]
NoOutcome == Outcome(NoErr, NullModel)

CreateModelCall(plan) == [op |-> "CreateModel", args |-> <<plan>>]
GetModelCall(id) == [op |-> "GetModel", args |-> <<id>>]
UpdateModelCall(id, plan) == [op |-> "UpdateModel", args |-> <<id, plan>>]
DeleteModelCall(id) == [op |-> "DeleteModel", args |-> <<id>>]

(***************************************************************************)
(* ModelResource.Create / Read / Update / Delete.                          *)
(* req holds Plan and/or State; resp = [Diagnostics, State] as initialised *)
(* by the caller; out is what the client call returns.  The result is the  *)
(* response, with the calls made to the client.                            *)
(***************************************************************************)
ErrorCreating == <<"Error", "creating", "model">>
ErrorReading == <<"Error", "reading", "model">>
ErrorUpdating == <<"Error", "updating", "model">>
ErrorDeleting == <<"Error", "deleting", "model">>
IdIsNullDetail == <<"Model", "ID", "is", "null", "after", "creation">>

Done(resp, calls) == [Diagnostics |-> resp.Diagnostics, State |-> resp.State, calls |-> calls]

\* Faulty variant of Create: the state is set before the id is checked.
Create_SetThenCheck(req, resp, out) ==
    LET plan == req.Plan
        calls == <<CreateModelCall(plan)>>
        model == out.model
    IN  IF out.err # NoErr
        THEN Done([resp EXCEPT !.Diagnostics = AddError(@, ErrorCreating, out.err)], calls)
        ELSE IF IsNull(model.ID)
        THEN Done([resp EXCEPT !.State = Stored(model),
                               !.Diagnostics = AddError(@, ErrorCreating, IdIsNullDetail)], calls)
        ELSE Done([resp EXCEPT !.State = Stored(model)], calls)

\* Faulty variant of Create: a failed client call is tried once more.
Create_Retry(req, resp, out) ==
    LET plan == req.Plan
        model == out.model
    IN  IF out.err # NoErr
        THEN Done([resp EXCEPT !.Diagnostics = AddError(@, ErrorCreating, out.err)],
                  <<CreateModelCall(plan), CreateModelCall(plan)>>)
        ELSE IF IsNull(model.ID)
        THEN Done([resp EXCEPT !.Diagnostics = AddError(@, ErrorCreating, IdIsNullDetail)],
                  <<CreateModelCall(plan)>>)
        ELSE Done([resp EXCEPT !.State = Stored(model)], <<CreateModelCall(plan)>>)

Create(req, resp, out) ==
    LET plan == req.Plan
        calls == <<CreateModelCall(plan)>>
        model == out.model
    IN  IF out.err # NoErr
        THEN Done([resp EXCEPT !.Diagnostics = AddError(@, ErrorCreating, out.err)], calls)
        ELSE IF IsNull(model.ID)
        THEN Done([resp EXCEPT !.Diagnostics = AddError(@, ErrorCreating, IdIsNullDetail)], calls)
        ELSE Done([resp EXCEPT !.State = Stored(model)], calls)

Read(req, resp, out) ==
    LET st == req.State.model
        calls == <<GetModelCall(ValueString(st.ID))>>
        model == IF IsNull(out.model.ID) THEN [out.model EXCEPT !.ID = st.ID] ELSE out.model
    IN  IF out.err # NoErr
        THEN Done([resp EXCEPT !.Diagnostics = AddError(@, ErrorReading, out.err)], calls)
        ELSE Done([resp EXCEPT !.State = Stored(model)], calls)

\* Faulty variant of Update, without line 364: the plan keeps its own id.
Update_PlanId(req, resp, out) ==
    LET st == req.State.model
        plan == req.Plan
        calls == <<UpdateModelCall(ValueString(st.ID), plan)>>
        model == IF IsNull(out.model.ID) THEN [out.model EXCEPT !.ID = st.ID] ELSE out.model
    IN  IF out.err # NoErr
        THEN Done([resp EXCEPT !.Diagnostics = AddError(@, ErrorUpdating, out.err)], calls)
        ELSE Done([resp EXCEPT !.State = Stored(model)], calls)

Update(req, resp, out) ==
    LET st == req.State.model
        plan == [req.Plan EXCEPT !.ID = st.ID]
        calls == <<UpdateModelCall(ValueString(st.ID), plan)>>
        model == IF IsNull(out.model.ID) THEN [out.model EXCEPT !.ID = st.ID] ELSE out.model
    IN  IF out.err # NoErr
        THEN Done([resp EXCEPT !.Diagnostics = AddError(@, ErrorUpdating, out.err)], calls)
        ELSE Done([resp EXCEPT !.State = Stored(model)], calls)

\* Faulty variant of Delete: the error is reported under Update's summary.
Delete_UpdateSummary(req, resp, out) ==
    LET st == req.State.model
        calls == <<DeleteModelCall(ValueString(st.ID))>>
    IN  IF out.err # NoErr
        THEN Done([resp EXCEPT !.Diagnostics = AddError(@, ErrorUpdating, out.err)], calls)
        ELSE Done(resp, calls)

Delete(req, resp, out) ==
    LET st == req.State.model
        calls == <<DeleteModelCall(ValueString(st.ID))>>
    IN  IF out.err # NoErr
        THEN Done([resp EXCEPT !.Diagnostics = AddError(@, ErrorDeleting, out.err)], calls)
        ELSE Done(resp, calls)

\* ModelResource.ImportState: ImportStatePassthroughID writes the import id to
\* the id attribute of the response state, which starts with every attribute
\* null; the client is not called.
ImportState(req, resp) ==
    Done([resp EXCEPT !.State = Stored([@.model EXCEPT !.ID = StringValue(req.ID)])], << >>)

(***************************************************************************)
(* Inputs.                                                                 *)
(***************************************************************************)
\* identities a configuration declares (id is a required attribute)
ConfigIds == {"m-1", "m-2"}

\* identities a response of the remote service carries: absent, empty, or some id
ResponseIds == {StringNull, StringValue(""), StringValue("m-1"), StringValue("m-2")}

\* identities an import names
ImportIds == ConfigIds

Lists(S) == UNION {[1..n -> S] : n \in 0..MaxListLen}

\* explicit access_control objects of a configuration
AccessControls ==
    {AccessControl(Permissions(g, EmptyList), Permissions(EmptyList, u)) :
        g \in Lists({"g1"}), u \in Lists({"u1"})}

PlanBools == {BoolNull, BoolUnknown, BoolValue(TRUE), BoolValue(FALSE)}
PlanObjects == {ObjectNull, ObjectUnknown} \cup {ObjectValue(v) : v \in AccessControls}

PlanModels == {Model(StringValue(i), p, a) : i \in ConfigIds, p \in PlanBools, a \in PlanObjects}

\* models the remote service answers with
ResponseModels ==
    {Model(i, BoolValue(p), a) :
        i \in ResponseIds, p \in BOOLEAN, a \in {ObjectNull, DefaultAccessControl}}

\* configured values of reasoning_effort and function_calling
ConfigStrings(S) == {StringNull, [kind |-> "unknown", value |-> ""]} \cup {StringValue(x) : x \in S}
ParamsConfigs ==
    {[reasoning_effort |-> r, function_calling |-> f] :
        r \in ConfigStrings({"low", "medium", "high", "max", ""}),
        f \in ConfigStrings({"native", "auto"})}

\* err.Error() of a failed client call
StoreErrors == {<<"not", "found">>, <<"server", "error">>}

Outcomes == {Outcome(NoErr, m) : m \in ResponseModels} \cup {Outcome(e, NullModel) : e \in StoreErrors}
DeleteOutcomes == {Outcome(e, NullModel) : e \in {NoErr} \cup StoreErrors}

(***************************************************************************)
(* The state machine: one resource instance, planned and applied by        *)
(* Terraform.                                                              *)
(***************************************************************************)

NotPlanned == [pending |-> FALSE, Plan |-> NullModel, Config |-> NullModel]
NoPlanResponse == [Diagnostics |-> NoDiags, PlanValue |-> ObjectNull]
NoParams == [reasoning_effort |-> StringNull, function_calling |-> StringNull]
NotValidated == [schema |-> "none", params |-> NoParams, Diagnostics |-> NoDiags]

Init ==
    /\ state = NoResource
    /\ planReq = NotPlanned
    /\ planResp = NoPlanResponse
    /\ last = [name |-> "none", calls |-> << >>, out |-> NoOutcome, Diagnostics |-> NoDiags,
               State |-> NoResource]
    /\ validated = NotValidated

\* the record of a handler call: its client calls, the client's outcome, and
\* the diagnostics and state of its response
Ran(name, out, done) ==
    [name |-> name, calls |-> done.calls, out |-> out, Diagnostics |-> done.Diagnostics,
     State |-> done.State]

\* an import is in progress: ImportState has run and the Read that Terraform
\* makes of the imported resource has not
Importing == last.name = "ImportState"

\* the plan the handlers receive: the planned attributes, access_control as the
\* plan modifier resolved it
EffectivePlan == [planReq.Plan EXCEPT !.access_control = planResp.PlanValue]

\* is_private: Default: booldefault.StaticBool(false)
IsPrivateDefault == BoolValue(FALSE)

\* the planned value of an attribute with a default: the default when the
\* configuration leaves the attribute out
WithDefault(configured, default) == IF IsNull(configured) THEN default ELSE configured

\* Validation of a resource configuration as written: the validators of
\* ModelResource.Schema run on it.  It precedes planning and calls no handler.
DoValidateConfig ==
    /\ ~Importing
    /\ \E params \in ParamsConfigs :
        LET diags == ValidateParams(ResourceParams, params)
        IN  /\ validated' = [schema |-> "resource", params |-> params, Diagnostics |-> diags]
            /\ last' = [name |-> "Validate", calls |-> << >>, out |-> NoOutcome, Diagnostics |-> diags,
                        State |-> NoResource]
    /\ planReq' = NotPlanned
    /\ planResp' = NoPlanResponse
    /\ UNCHANGED state

\* Planning of a resource configuration that validation accepted: is_private
\* gets its default when the configuration omits it, then the access_control
\* plan modifier runs on the plan; its response starts with no diagnostics and
\* the attribute's planned value.
DoPlanModify ==
    /\ ~Importing
    /\ validated.schema = "resource"
    /\ ~HasError(validated.Diagnostics)
    /\ validated' = NotValidated
    /\ \E config \in PlanModels :
        LET plan == [config EXCEPT !.is_private = WithDefault(@, IsPrivateDefault)]
            req == [pending |-> TRUE, Plan |-> plan, Config |-> config]
            resp == PlanModifyObject(req, [Diagnostics |-> NoDiags, PlanValue |-> plan.access_control])
        IN  /\ planReq' = req
            /\ planResp' = resp
            /\ last' = [name |-> "PlanModify", calls |-> << >>, out |-> NoOutcome,
                        Diagnostics |-> resp.Diagnostics, State |-> NoResource]
            /\ UNCHANGED state

\* Apply of a plan without error diagnostics, no resource in state: Create.
\* resp.State starts as the null state.
DoCreate ==
    /\ ~Importing
    /\ planReq.pending
    /\ ~HasError(planResp.Diagnostics)
    /\ ~state.exists
    /\ \E out \in Outcomes :
        LET done == Create([Plan |-> EffectivePlan], [Diagnostics |-> NoDiags, State |-> NoResource], out)
        IN  /\ state' = done.State
            /\ last' = Ran("Create", out, done)
    /\ planReq' = [planReq EXCEPT !.pending = FALSE]
    /\ validated' = NotValidated
    /\ UNCHANGED planResp

\* Refresh of a resource in state, or the read of a resource just imported:
\* Read.  resp.State starts as the current state.  When the Read of an imported
\* resource reports an error the import fails and nothing is kept in state.
DoRead ==
    /\ state.exists
    /\ \E out \in Outcomes :
        LET done == Read([State |-> state], [Diagnostics |-> NoDiags, State |-> state], out)
        IN  /\ state' = IF Importing /\ HasError(done.Diagnostics) THEN NoResource ELSE done.State
            /\ last' = Ran("Read", out, done)
    /\ planReq' = [planReq EXCEPT !.pending = FALSE]
    /\ validated' = NotValidated
    /\ UNCHANGED planResp

\* Apply of a plan without error diagnostics, resource in state: Update.
\* resp.State starts as the prior state.
DoUpdate ==
    /\ ~Importing
    /\ planReq.pending
    /\ ~HasError(planResp.Diagnostics)
    /\ state.exists
    /\ \E out \in Outcomes :
        LET done == Update([Plan |-> EffectivePlan, State |-> state],
                           [Diagnostics |-> NoDiags, State |-> state], out)
        IN  /\ state' = done.State
            /\ last' = Ran("Update", out, done)
    /\ planReq' = [planReq EXCEPT !.pending = FALSE]
    /\ validated' = NotValidated
    /\ UNCHANGED planResp

\* Destroy of a resource in state: Delete.  When the handler reports no error
\* the resource is removed from state.
DoDelete ==
    /\ ~Importing
    /\ state.exists
    /\ \E out \in DeleteOutcomes :
        LET done == Delete([State |-> state], [Diagnostics |-> NoDiags, State |-> state], out)
        IN  /\ state' = IF HasError(done.Diagnostics) THEN done.State ELSE NoResource
            /\ last' = Ran("Delete", out, done)
    /\ planReq' = [planReq EXCEPT !.pending = FALSE]
    /\ validated' = NotValidated
    /\ UNCHANGED planResp

\* Import of a remote model under an address with no resource in state:
\* ImportState.  resp.State starts with every attribute null.  Terraform reads
\* the imported resource next, before anything else.
DoImportState ==
    /\ ~Importing
    /\ ~state.exists
    /\ \E id \in ImportIds :
        LET done == ImportState([ID |-> id], [Diagnostics |-> NoDiags, State |-> NoResource])
        IN  /\ state' = done.State
            /\ last' = Ran("ImportState", NoOutcome, done)
    /\ planReq' = [planReq EXCEPT !.pending = FALSE]
    /\ validated' = NotValidated
    /\ UNCHANGED planResp

Next ==
    \/ DoValidateConfig \/ DoPlanModify
    \/ DoCreate \/ DoRead \/ DoUpdate \/ DoDelete \/ DoImportState

Spec == Init /\ [][Next]_vars

(***************************************************************************)
(* Properties of the plan modifier.                                        *)
(***************************************************************************)
Planned == planReq # NotPlanned
PlannedPrivate == planReq.Plan.is_private
PlannedAccessControl == planReq.Plan.access_control
Unset(v) == IsNull(v) \/ IsUnknown(v)
Explicit(v) == ~Unset(v)
PathsOf(diags) == {diags[i].path : i \in 1..Len(diags)}

\* C1: when is_private is false in the plan, the access_control value the plan
\* modifier resolves (a resolution that raises no error) is null, whatever
\* access_control the resource's state holds.
C1_PublicClearsAccessControl ==
    (Planned /\ PlannedPrivate = BoolValue(FALSE) /\ ~HasError(planResp.Diagnostics))
        => planResp.PlanValue = ObjectNull

\* is_private false planned, access_control left to the provider, while the
\* state holds a non-null access_control: the resolved value is null
C1_Witness ==
    /\ last.name = "PlanModify"
    /\ PlannedPrivate = BoolValue(FALSE)
    /\ IsUnknown(PlannedAccessControl)
    /\ state.exists /\ ~IsNull(state.model.access_control)
    /\ planResp.PlanValue = ObjectNull

\* C2: when is_private is true and access_control is null or unknown in the
\* plan, the plan modifier raises no error and resolves access_control to
\* {read: {group_ids: [], user_ids: []}, write: {group_ids: [], user_ids: []}}.
C2_PrivateDefaultsAccessControl ==
    (Planned /\ PlannedPrivate = BoolValue(TRUE) /\ Unset(PlannedAccessControl))
        => /\ planResp.Diagnostics = << >>
           /\ planResp.PlanValue =
                [kind |-> "known",
                 value |-> [read |-> [group_ids |-> << >>, user_ids |-> << >>],
                            write |-> [group_ids |-> << >>, user_ids |-> << >>]]]

C2_Witness ==
    /\ last.name = "PlanModify"
    /\ PlannedPrivate = BoolValue(TRUE)
    /\ IsNull(PlannedAccessControl)
    /\ planResp.PlanValue.kind = "known"

\* C3: when is_private is false and access_control is explicitly present in the
\* plan, the plan modifier raises error diagnostics on both is_private and
\* access_control and sets no plan value, and the plan is not applied: no
\* client call is made for it.
C3_ConflictIsRejected ==
    (Planned /\ PlannedPrivate = BoolValue(FALSE) /\ Explicit(PlannedAccessControl))
        => /\ HasError(planResp.Diagnostics)
           /\ {"is_private", "access_control"} \subseteq PathsOf(planResp.Diagnostics)
           /\ planResp.PlanValue = PlannedAccessControl
           /\ planReq.pending => (last.calls = << >> /\ ~ENABLED DoCreate /\ ~ENABLED DoUpdate)

C3_Witness ==
    /\ last.name = "PlanModify"
    /\ planReq.pending
    /\ PlannedPrivate = BoolValue(FALSE)
    /\ PlannedAccessControl.kind = "known"
    /\ Len(planResp.Diagnostics) = 2

(***************************************************************************)
(* Properties of the handlers.                                             *)
(***************************************************************************)
Succeeded(l) == ~HasError(l.Diagnostics)
StoreFailed(l) == l.out.err # NoErr
Handlers == {"Create", "Read", "Update", "Delete"}
NonEmptyId(v) == v.kind = "known" /\ v.value # ""
NoIdentity(v) == ValueString(v) = ""

\* C4: Update calls UpdateModel with the stored id as the id argument and as
\* the ID of the body, whatever id the plan carries.
C4_UpdateSendsStoredId ==
    [][DoUpdate =>
        /\ Len(last'.calls) = 1
        /\ last'.calls[1].op = "UpdateModel"
        /\ last'.calls[1].args[1] = ValueString(state.model.ID)
        /\ last'.calls[1].args[2].ID = state.model.ID]_vars

\* an Update ran whose plan declared another id than the one sent
C4_Witness ==
    /\ last.name = "Update"
    /\ NonEmptyId(last.calls[1].args[2].ID)
    /\ planReq.Plan.ID # last.calls[1].args[2].ID

\* C5: a Read or Update that succeeds on a resource whose stored id is
\* non-empty, with a response whose id is null or the empty string, writes
\* the stored id to state.
C5_MergeKeepsKnownId ==
    [][((DoRead \/ DoUpdate) /\ Succeeded(last') /\ NonEmptyId(state.model.ID)
            /\ NoIdentity(last'.out.model.ID))
        => state'.model.ID = state.model.ID]_vars

\* C6: a Create whose client call succeeds with a null or empty id raises an
\* error and leaves no resource in state.
C6_CreateNeedsIdentity ==
    (last.name = "Create" /\ ~StoreFailed(last) /\ NoIdentity(last.out.model.ID))
        => (HasError(last.Diagnostics) /\ ~state.exists)

\* C7: a successful Read or Update of a resource whose state holds an identity
\* leaves the id in state as it was, whatever id the plan or the response
\* carries.
C7_IdentityIsStable ==
    [][((DoRead \/ DoUpdate) /\ Succeeded(last') /\ NonEmptyId(state.model.ID))
        => state'.model.ID = state.model.ID]_vars

\* C8: a successful Create that returned id X, followed immediately by a Read
\* that succeeds, leaves id X in state.
C8_CreateReadRoundTrip ==
    [][(last.name = "Create" /\ Succeeded(last) /\ NonEmptyId(last.out.model.ID)
            /\ DoRead /\ Succeeded(last'))
        => state'.model.ID = last.out.model.ID]_vars

\* C9: every handler calls the client at most once, and when the call fails
\* the handler makes no further call and reports the error.
C9_FailFast ==
    last.name \in Handlers
        => /\ Len(last.calls) <= 1
           /\ StoreFailed(last)
                => /\ Len(last.calls) = 1
                   /\ \E i \in 1..Len(last.Diagnostics) :
                        /\ last.Diagnostics[i].severity = "error"
                        /\ last.Diagnostics[i].detail = last.out.err

\* a Read whose client call failed
C9_Witness ==
    /\ last.name = "Read"
    /\ last.out.err = <<"server", "error">>
    /\ Len(last.calls) = 1

\* the words of a diagnostic
Words(d) == {d.summary[i] : i \in 1..Len(d.summary)} \cup {d.detail[i] : i \in 1..Len(d.detail)}

OperationWord(name) ==
    CASE name = "Create" -> "creating"
      [] name = "Read" -> "reading"
      [] name = "Update" -> "updating"
      [] name = "Delete" -> "deleting"

\* the identity of the resource the handler was applied to: the planned id for
\* Create, the id argument of the call for the others
AppliedTo(l) ==
    IF l.name = "Create" THEN ValueString(l.calls[1].args[1].ID) ELSE l.calls[1].args[1]

\* C10 as claimed: a client error is reported in a diagnostic that names the
\* operation and the identity of the resource.
C10_ErrorNamesOperationAndId ==
    (last.name \in Handlers /\ StoreFailed(last))
        => \E i \in 1..Len(last.Diagnostics) :
                /\ OperationWord(last.name) \in Words(last.Diagnostics[i])
                /\ AppliedTo(last) \in Words(last.Diagnostics[i])

\* C10 amended: a client error is reported as one error diagnostic whose
\* summary is "Error <operation> model" and whose detail is the client's error
\* text unchanged; the handler adds no identity.
C10_ErrorNamesOperation ==
    (last.name \in Handlers /\ StoreFailed(last))
        => last.Diagnostics =
            << [severity |-> "error", path |-> "",
                summary |-> <<"Error", OperationWord(last.name), "model">>,
                detail |-> last.out.err] >>

\* a Delete whose client call failed
C10_Witness ==
    /\ last.name = "Delete"
    /\ last.out.err = <<"not", "found">>
    /\ Len(last.Diagnostics) = 1

\* the plan modifier run once more, on the plan it resolved
ResolvedAgain ==
    PlanModifyObject([Plan |-> EffectivePlan],
                     [Diagnostics |-> NoDiags, PlanValue |-> EffectivePlan.access_control])

\* C15: when the plan modifier resolves a plan without error, resolving the
\* resolved plan again raises no error and yields the same access_control.
C15_ResolverIsIdempotent ==
    (Planned /\ ~HasError(planResp.Diagnostics))
        => /\ ResolvedAgain.Diagnostics = << >>
           /\ ResolvedAgain.PlanValue = planResp.PlanValue

\* a plan whose access_control the plan modifier changed: unknown became null
C15_Witness ==
    /\ last.name = "PlanModify"
    /\ PlannedPrivate = BoolValue(FALSE)
    /\ IsUnknown(PlannedAccessControl)
    /\ planResp.PlanValue = ObjectNull
    /\ planResp.Diagnostics = << >>

\* the plan modifier on the current plan with is_private replaced by p
ResolvedWith(p) ==
    PlanModifyObject([Plan |-> [planReq.Plan EXCEPT !.is_private = p]],
                     [Diagnostics |-> NoDiags, PlanValue |-> PlannedAccessControl])

\* C16: the plan modifier treats a null or unknown is_private as false: with
\* access_control explicitly present it raises the error on is_private and on
\* access_control, otherwise it resolves access_control to null; and an
\* is_private the configuration omits is planned as false.
C16_UnsetPrivateIsPublic ==
    Planned
        => /\ \A p \in {BoolNull, BoolUnknown} :
                /\ ResolvedWith(p) = ResolvedWith(BoolValue(FALSE))
                /\ IF Explicit(PlannedAccessControl)
                   THEN /\ Len(ResolvedWith(p).Diagnostics) = 2
                        /\ PathsOf(ResolvedWith(p).Diagnostics) = {"is_private", "access_control"}
                   ELSE /\ ResolvedWith(p).Diagnostics = << >>
                        /\ ResolvedWith(p).PlanValue = ObjectNull
           /\ planResp = ResolvedWith(PlannedPrivate)
           /\ IsNull(planReq.Config.is_private) => PlannedPrivate = BoolValue(FALSE)

\* an unknown is_private planned with an explicit access_control: rejected
C16_Witness ==
    /\ last.name = "PlanModify"
    /\ IsUnknown(PlannedPrivate)
    /\ Explicit(PlannedAccessControl)
    /\ PathsOf(planResp.Diagnostics) = {"is_private", "access_control"}

\* is_private omitted by the configuration, planned as false and resolved to null
C16_WitnessOmitted ==
    /\ last.name = "PlanModify"
    /\ IsNull(planReq.Config.is_private)
    /\ PlannedPrivate = BoolValue(FALSE)
    /\ planResp.PlanValue = ObjectNull

(***************************************************************************)
(* Properties of schema validation.                                        *)
(***************************************************************************)
Known(v) == v.kind = "known"
Rejected(path) == \E i \in 1..Len(validated.Diagnostics) :
    validated.Diagnostics[i].severity = "error" /\ validated.Diagnostics[i].path = path

C12_PrivateExplicitPassesThrough ==
    (Planned /\ PlannedPrivate = BoolValue(TRUE) /\ Explicit(PlannedAccessControl))
        => /\ planResp.Diagnostics = << >>
           /\ planResp.PlanValue = PlannedAccessControl
           /\ EffectivePlan.access_control = PlannedAccessControl

\* is_private true planned with an access_control that names a group
C12_Witness ==
    /\ last.name = "PlanModify"
    /\ PlannedPrivate = BoolValue(TRUE)
    /\ PlannedAccessControl.kind = "known"
    /\ PlannedAccessControl.value.read.group_ids = <<"g1">>
    /\ planResp.PlanValue = PlannedAccessControl

\* C14: a handler whose client call fails, and a Create whose id check fails,
\* return the state as it was before the call.
C14_ErrorLeavesState ==
    [][((DoCreate \/ DoRead \/ DoUpdate \/ DoDelete)
            /\ (StoreFailed(last') \/ (last'.name = "Create" /\ HasError(last'.Diagnostics))))
        => last'.State = state]_vars

\* a Create whose client call returned a model with a null id
C14_Witness ==
    /\ last.name = "Create"
    /\ ~StoreFailed(last)
    /\ IsNull(last.out.model.ID)
    /\ HasError(last.Diagnostics)
    /\ last.State = NoResource
    /\ ~state.exists

====
